---- MODULE Spec2Model ----
(***************************************************************************)
(* Cancellable SSE streaming of bedrock_be_ai.                             *)
(*                                                                         *)
(* The model follows src/app/utils/chat.py (the two streaming generators   *)
(* of ChatResponse), src/app/routes/v0/chat.py (the stream handlers and    *)
(* stop_generation) and src/main.py (the application state).               *)
(*                                                                         *)
(* Scheduling is asyncio's: one event loop, a generator runs without       *)
(* interruption from one suspension point to the next.  The suspension     *)
(* points of a streaming generator are the await of the next chunk in      *)
(* `async for chunk in raw_resp` and every `yield`.  One action of the     *)
(* model is one such uninterrupted run, or one whole request handler.      *)
(*                                                                         *)
(* main.py assigns app.state.bot and never app.state.stop_signal, while    *)
(* the handlers read request.app.state.stop_signal as a set.  InitMain is  *)
(* the application state main.py builds (SpecMain); Init is the state the  *)
(* handlers are written against, the registry present and empty (Spec).    *)
(* The actions cover both: a registry access without the attribute raises  *)
(* AttributeError.                                                         *)
(***************************************************************************)
EXTENDS Integers, Sequences, FiniteSets, TLC

VARIABLES
    app_state,    \* request.app.state: attribute name -> value
    st,           \* per stream: where its generator is suspended
    mode,         \* per stream: with_metadata of ChatResponse.streaming
    rid,          \* per stream: request_id handed to the generator
    chunk,        \* per stream: the loop variable `chunk`: <<>> until a chunk is bound
    pulled,       \* per stream: the chunks raw_resp has produced so far
    out,          \* per stream: the frames the generator has yielded so far
    exit,         \* per stream: how the loop / the generator ended
    resp,         \* what the last stop_generation call returned or raised
    armed         \* history, per stream: a cancellation request for its id came
                  \*   while it and another stream with the same id were in
                  \*   flight, and it has not run its registry check since

vars == <<app_state, st, mode, rid, chunk, pulled, out, exit, resp, armed>>

---------------------------------------------------------------------------
(* Bounds and value sets *)

\* Most non-terminal chunks one source produces.
MaxChunks == 2

\* The concurrent streaming requests the model follows.
Streams == {"s1", "s2"}

\* req.request_id is Optional[str]: None, the empty string, or a client id.
None == "None"
ClientIds == {"r1", "r2"}
StreamIds == {None} \cup ClientIds
CancelIds == {None, ""} \cup ClientIds

\* kha.schema.keys.ResponseKey
CONTENT == "content"
DONE == "done"

---------------------------------------------------------------------------
(* The chunk source (kha AsyncChatBot, consumed as raw_resp) *)

\* The content of the k-th non-terminal chunk: distinct per position, so that
\* order and identity of emitted fragments are observable.
Tok(k) == ToString(k)

NonTerminal(k) == [content |-> Tok(k), done |-> FALSE]

\* The terminal chunk carries done = true and the execution metadata; its
\* content is empty, or the key is absent.
TerminalChunks ==
    { [content |-> "", done |-> TRUE, metadata |-> "M"],
      [done |-> TRUE, metadata |-> "M"] }

\* dict.get(key, default)
Get(d, key, default) == IF key \in DOMAIN d THEN d[key] ELSE default

IsTerminal(c) == Get(c, DONE, FALSE)

TerminalPulled(h) == Len(h) > 0 /\ IsTerminal(h[Len(h)])

\* The chunks raw_resp.__anext__() can give after history h.  The terminal
\* chunk is the last one; at most MaxChunks non-terminal chunks precede it.
SourceChunks(h) ==
    IF TerminalPulled(h)
    THEN {}
    ELSE TerminalChunks
         \cup (IF Len(h) < MaxChunks THEN {NonTerminal(Len(h) + 1)} ELSE {})

---------------------------------------------------------------------------
(* SSE encoding (bedrock_core.data.sse.SSEConverter), by its frame *)

\* SSEConverter.str_to_sse(txt): an unnamed data line carrying txt.
str_to_sse(txt) == [event |-> "data", data |-> txt]

\* SSEConverter.event_to_sse(event, data): a named event carrying data.
event_to_sse(event, data) == [event |-> event, data |-> data]

---------------------------------------------------------------------------
(* The application state and the cancellation registry *)

\* starlette's State: reading an attribute that was never assigned raises
\* AttributeError.
HasRegistry == "stop_signal" \in DOMAIN app_state

\* `if request and request_id`: None and "" are falsy.
Truthy(id) == id # None /\ id # ""

\* request_id in request.app.state.stop_signal
StopRequested(id) == id \in app_state.stop_signal

\* request.app.state.stop_signal.add(req.request_id)
Add(id) == [app_state EXCEPT !.stop_signal = @ \cup {id}]

\* Mutant of Discard: the set is cleared (clear() where the code has
\* discard(request_id)).
DiscardAll(id) == [app_state EXCEPT !.stop_signal = {}]

\* request.app.state.stop_signal.discard(request_id)
Discard(id) == [app_state EXCEPT !.stop_signal = @ \ {id}]

InFlight(s) == st[s] \in {"created", "awaiting", "yielded"}

---------------------------------------------------------------------------
(* The generators, one uninterrupted run per operator *)

\* Mutant of Finally: the generator ends without its discard.
FinallyNoDiscard(s, e) ==
    /\ st' = [st EXCEPT ![s] = "finished"]
    /\ app_state' = app_state
    /\ exit' = [exit EXCEPT ![s] = e]

\* Mutant of Finally: the identifier is kept while another stream in flight
\* was started with it.
FinallyKeepsShared(s, e) ==
    /\ st' = [st EXCEPT ![s] = "finished"]
    /\ IF Truthy(rid[s])
       THEN IF HasRegistry
            THEN /\ app_state' =
                       IF \E u \in Streams \ {s} :
                             rid[u] = rid[s] /\ InFlight(u)
                       THEN app_state ELSE Discard(rid[s])
                 /\ exit' = [exit EXCEPT ![s] = e]
            ELSE /\ app_state' = app_state
                 /\ exit' = [exit EXCEPT ![s] = "AttributeError"]
       ELSE /\ app_state' = app_state
            /\ exit' = [exit EXCEPT ![s] = e]

\* Mutant of Finally: the block ends with a return, which swallows the
\* exception that was propagating.
FinallyReturns(s, e) ==
    /\ st' = [st EXCEPT ![s] = "finished"]
    /\ app_state' = IF Truthy(rid[s]) /\ HasRegistry
                     THEN Discard(rid[s]) ELSE app_state
    /\ exit' = [exit EXCEPT ![s] = "exhausted"]

\* The finally block of both generators, then the generator ends with e
\* (a return, or the exception that was propagating).  A failing registry
\* access inside finally replaces e by its AttributeError.
Finally(s, e) ==
    /\ st' = [st EXCEPT ![s] = "finished"]
    /\ IF Truthy(rid[s])
       THEN IF HasRegistry
            THEN /\ app_state' = Discard(rid[s])
                 /\ exit' = [exit EXCEPT ![s] = e]
            ELSE /\ app_state' = app_state
                 /\ exit' = [exit EXCEPT ![s] = "AttributeError"]
       ELSE /\ app_state' = app_state
            /\ exit' = [exit EXCEPT ![s] = e]

\* `yield frame`: the frame goes out and the generator suspends.
Yield(s, frame) ==
    /\ out' = [out EXCEPT ![s] = Append(@, frame)]
    /\ st' = [st EXCEPT ![s] = "yielded"]

\* Mutant of Check: the flag of any request stops the stream.
CheckAnyId(s) ==
    IF ~Truthy(rid[s]) THEN "go"
    ELSE IF ~HasRegistry THEN "raise"
    ELSE IF app_state.stop_signal # {} THEN "break"
    ELSE "go"

\* Mutant of Check: the loop body never looks at the registry.
CheckNever(s) == "go"

\* Mutant of Check: the registry is consulted whether or not the stream has
\* an identifier.
CheckNoGuard(s) ==
    IF ~HasRegistry THEN "raise"
    ELSE IF StopRequested(rid[s]) THEN "break"
    ELSE "go"

\* The cancellation check of the loop body: "raise" when the registry
\* attribute is missing, "break" when the id is flagged, else "go".
Check(s) ==
    IF ~Truthy(rid[s]) THEN "go"
    ELSE IF ~HasRegistry THEN "raise"
    ELSE IF StopRequested(rid[s]) THEN "break"
    ELSE "go"

\* Mutant of only_txt_chunk: the terminal chunk gets no frame.
only_txt_chunk_skips_terminal(s, c) ==
    LET k == Check(s) IN
    /\ chunk' = [chunk EXCEPT ![s] = <<c>>]
    /\ IF k = "raise"
       THEN Finally(s, "AttributeError") /\ out' = out
       ELSE IF k = "break"
       THEN Finally(s, "break") /\ out' = out
       ELSE IF Get(c, DONE, FALSE)
       THEN UNCHANGED <<app_state, st, exit, out>>
       ELSE /\ Yield(s, str_to_sse(Get(c, CONTENT, "")))
            /\ UNCHANGED <<app_state, exit>>

\* Mutant of only_txt_chunk: the check comes after the yield, so the first
\* chunk goes out before the registry is ever looked at.
only_txt_chunk_checks_late(s, c) ==
    LET k == IF pulled[s] = <<>> THEN "go" ELSE Check(s) IN
    /\ chunk' = [chunk EXCEPT ![s] = <<c>>]
    /\ IF k = "raise"
       THEN Finally(s, "AttributeError") /\ out' = out
       ELSE IF k = "break"
       THEN Finally(s, "break") /\ out' = out
       ELSE /\ Yield(s, str_to_sse(Get(c, CONTENT, "")))
            /\ UNCHANGED <<app_state, exit>>

\* _generator_only_txt: the loop body for a chunk c just pulled.
only_txt_chunk(s, c) ==
    LET k == Check(s) IN
    /\ chunk' = [chunk EXCEPT ![s] = <<c>>]
    /\ IF k = "raise"
       THEN Finally(s, "AttributeError") /\ out' = out
       ELSE IF k = "break"
       THEN Finally(s, "break") /\ out' = out
       ELSE /\ Yield(s, str_to_sse(Get(c, CONTENT, "")))
            /\ UNCHANGED <<app_state, exit>>

\* Mutant of metadata_tail: the `done` event is emitted on leaving the loop,
\* whatever the last chunk was.
metadata_tail_always_done(s, cur, how) ==
    IF cur = <<>>
    THEN Finally(s, "UnboundLocalError") /\ out' = out
    ELSE /\ Yield(s, event_to_sse("done", cur[1]))
         /\ exit' = [exit EXCEPT ![s] = how]
         /\ app_state' = app_state

\* Mutant of metadata_tail: the identifier is discarded on leaving the loop,
\* before the last frame is yielded.
metadata_tail_discards_early(s, cur, how) ==
    IF cur = <<>>
    THEN Finally(s, "UnboundLocalError") /\ out' = out
    ELSE /\ IF Get(cur[1], DONE, FALSE)
            THEN Yield(s, event_to_sse("done", cur[1]))
            ELSE Yield(s, str_to_sse(Get(cur[1], CONTENT, "")))
         /\ exit' = [exit EXCEPT ![s] = how]
         /\ app_state' = IF Truthy(rid[s]) /\ HasRegistry
                          THEN Discard(rid[s]) ELSE app_state

\* _generator_with_metadata_tail: the statements after the loop, which read
\* the loop variable; cur is <<>> when no chunk was ever bound.
metadata_tail(s, cur, how) ==
    IF cur = <<>>
    THEN Finally(s, "UnboundLocalError") /\ out' = out
    ELSE /\ IF Get(cur[1], DONE, FALSE)
            THEN Yield(s, event_to_sse("done", cur[1]))
            ELSE Yield(s, str_to_sse(Get(cur[1], CONTENT, "")))
         /\ exit' = [exit EXCEPT ![s] = how]
         /\ app_state' = app_state

\* Mutant of with_metadata_chunk: the flag is noticed but the loop goes on
\* (`continue` where the code has `break`).
with_metadata_chunk_continues(s, c) ==
    LET k == Check(s) IN
    /\ chunk' = [chunk EXCEPT ![s] = <<c>>]
    /\ IF k = "raise"
       THEN Finally(s, "AttributeError") /\ out' = out
       ELSE IF k = "break"
       THEN /\ exit' = [exit EXCEPT ![s] = "break"]
            /\ UNCHANGED <<app_state, st, out>>
       ELSE UNCHANGED <<app_state, st, out, exit>>

\* _generator_with_metadata_tail: the loop body for a chunk c just pulled.
with_metadata_chunk(s, c) ==
    LET k == Check(s) IN
    /\ chunk' = [chunk EXCEPT ![s] = <<c>>]
    /\ IF k = "raise"
       THEN Finally(s, "AttributeError") /\ out' = out
       ELSE IF k = "break"
       THEN metadata_tail(s, <<c>>, "break")
       ELSE UNCHANGED <<app_state, st, out, exit>>

---------------------------------------------------------------------------
(* Actions *)

\* ChatResponse.streaming, called by web_chat (with_metadata = False) and
\* web_chat_with_metadata (True): the generator object is created.
streaming(s, with_metadata, request_id) ==
    /\ st[s] = "idle"
    /\ st' = [st EXCEPT ![s] = "created"]
    /\ mode' = [mode EXCEPT ![s] = with_metadata]
    /\ rid' = [rid EXCEPT ![s] = request_id]
    /\ UNCHANGED <<app_state, chunk, pulled, out, exit, resp, armed>>

web_chat(s, request_id) == streaming(s, FALSE, request_id)

web_chat_with_metadata(s, request_id) == streaming(s, TRUE, request_id)

\* The transport asks for the next frame.  The generator runs to its next
\* suspension: the await of the next chunk, or, past the tail's yield of
\* the metadata generator, through finally to its end.
Resume(s) ==
    /\ st[s] \in {"created", "yielded"}
    /\ IF mode[s] /\ st[s] = "yielded"
       THEN Finally(s, exit[s])
       ELSE /\ st' = [st EXCEPT ![s] = "awaiting"]
            /\ UNCHANGED <<app_state, exit>>
    /\ UNCHANGED <<mode, rid, chunk, pulled, out, resp, armed>>

\* raw_resp delivers its next chunk to the suspended `async for`.
DeliverChunk(s) ==
    /\ st[s] = "awaiting"
    /\ \E c \in SourceChunks(pulled[s]) :
          /\ pulled' = [pulled EXCEPT ![s] = Append(@, c)]
          /\ IF mode[s] THEN with_metadata_chunk(s, c) ELSE only_txt_chunk(s, c)
    /\ armed' = [armed EXCEPT ![s] = FALSE]
    /\ UNCHANGED <<mode, rid, resp>>

\* raw_resp is exhausted: the loop ends normally.
SourceEnds(s) ==
    /\ st[s] = "awaiting"
    /\ IF mode[s]
       THEN metadata_tail(s, chunk[s], "exhausted")
       ELSE Finally(s, "exhausted") /\ out' = out
    /\ UNCHANGED <<mode, rid, chunk, pulled, resp, armed>>

\* raw_resp raises: the exception leaves the loop through finally.
SourceRaises(s) ==
    /\ st[s] = "awaiting"
    /\ Finally(s, "SourceError")
    /\ UNCHANGED <<mode, rid, chunk, pulled, out, resp, armed>>

\* The consumer goes away while the generator is suspended: GeneratorExit at
\* a yield, CancelledError at the await.  Either leaves through finally.
Close(s) ==
    /\ st[s] \in {"awaiting", "yielded"}
    /\ Finally(s, "closed")
    /\ UNCHANGED <<mode, rid, chunk, pulled, out, resp, armed>>

\* Mutant of stop_generation: the request also cancels the task of every
\* stream waiting for a chunk under that identifier.
stop_generation_forced(request_id) ==
    /\ IF Truthy(request_id)
       THEN IF HasRegistry
            THEN /\ app_state' = Add(request_id)
                 /\ resp' = "ok"
            ELSE /\ app_state' = app_state
                 /\ resp' = "AttributeError"
       ELSE /\ app_state' = app_state
            /\ resp' = "ok"
    /\ st' = [s \in Streams |->
                 IF Truthy(request_id) /\ rid[s] = request_id
                    /\ st[s] = "awaiting"
                 THEN "finished" ELSE st[s]]
    /\ exit' = [s \in Streams |->
                   IF Truthy(request_id) /\ rid[s] = request_id
                      /\ st[s] = "awaiting"
                   THEN "closed" ELSE exit[s]]
    /\ UNCHANGED <<mode, rid, chunk, pulled, out, armed>>

\* POST /stop_streaming.
stop_generation(request_id) ==
    /\ IF Truthy(request_id)
       THEN IF HasRegistry
            THEN /\ app_state' = Add(request_id)
                 /\ resp' = "ok"
            ELSE /\ app_state' = app_state
                 /\ resp' = "AttributeError"
       ELSE /\ app_state' = app_state
            /\ resp' = "ok"
    /\ armed' = [s \in Streams |->
                    \/ armed[s]
                    \/ /\ Truthy(request_id) /\ HasRegistry
                       /\ rid[s] = request_id /\ InFlight(s)
                       /\ \E u \in Streams \ {s} :
                             rid[u] = request_id /\ InFlight(u)]
    /\ UNCHANGED <<st, mode, rid, chunk, pulled, out, exit>>

---------------------------------------------------------------------------
(* Specifications *)

\* No stream yet, nothing requested.
NoStreams ==
    /\ st = [s \in Streams |-> "idle"]
    /\ mode = [s \in Streams |-> FALSE]
    /\ rid = [s \in Streams |-> None]
    /\ chunk = [s \in Streams |-> <<>>]
    /\ pulled = [s \in Streams |-> <<>>]
    /\ out = [s \in Streams |-> <<>>]
    /\ exit = [s \in Streams |-> "none"]
    /\ resp = "none"
    /\ armed = [s \in Streams |-> FALSE]

\* The application state main.py builds: app.state.bot only.
InitMain ==
    /\ app_state = [bot |-> "AsyncChatBot"]
    /\ NoStreams

\* The application state the handlers are written against: the registry
\* is there from process start, empty.
Init ==
    /\ app_state = [bot |-> "AsyncChatBot", stop_signal |-> {}]
    /\ NoStreams

Next ==
    \/ \E s \in Streams, id \in StreamIds : web_chat(s, id)
    \/ \E s \in Streams, id \in StreamIds : web_chat_with_metadata(s, id)
    \/ \E s \in Streams : Resume(s)
    \/ \E s \in Streams : DeliverChunk(s)
    \/ \E s \in Streams : SourceEnds(s)
    \/ \E s \in Streams : SourceRaises(s)
    \/ \E s \in Streams : Close(s)
    \/ \E id \in CancelIds : stop_generation(id)

Spec == Init /\ [][Next]_vars

SpecMain == InitMain /\ [][Next]_vars

\* Either application state: with the registry, or as main.py leaves it.
InitAny == Init \/ InitMain

SpecAny == InitAny /\ [][Next]_vars

\* The source of a stream does something: a chunk, its end, or a failure.
SourceEvent(s) == DeliverChunk(s) \/ SourceEnds(s) \/ SourceRaises(s)

\* The transport keeps asking for frames (its `async for` over the
\* generator) and no source stalls: it goes on delivering, or ends.
Fairness ==
    \A s \in Streams : WF_vars(Resume(s)) /\ WF_vars(SourceEvent(s))

SpecLive == Init /\ [][Next]_vars /\ Fairness

---------------------------------------------------------------------------
(* Observations used by the properties *)

Registry == app_state.stop_signal

\* The stream's own identifier is flagged in the registry.
Flagged(s) == Truthy(rid[s]) /\ HasRegistry /\ rid[s] \in Registry

Finished(s) == st[s] = "finished"

\* The generator of s ends in this step.
Exits(s) == st[s] # "finished" /\ st'[s] = "finished"

\* The loop of s pulls a chunk in this step (and so runs its check).
Pulls(s) == Len(pulled'[s]) > Len(pulled[s])

DataFrames(o) == SelectSeq(o, LAMBDA f : f.event = "data")
DoneEvents(o) == SelectSeq(o, LAMBDA f : f.event = "done")
HasDone(o) == Len(DoneEvents(o)) > 0

Raised(e) == e \in {"SourceError", "UnboundLocalError", "AttributeError"}

---------------------------------------------------------------------------
(* Properties *)

\* C1 (cleanup invariant): whenever the generator of a stream that was
\* started with a request identifier ends -- source exhausted, cancellation
\* break, exception of the source, or the consumer closing it -- in either
\* projection, its identifier is absent from the registry when it has ended.
C1_CleanupAtExit ==
    [][\A s \in Streams :
          (Exits(s) /\ Truthy(rid[s])) => rid[s] \notin app_state'.stop_signal]_vars

\* C1 witness: a content-only and a metadata-tail stream, each with its own
\* identifier, both ended by a cancellation break, both identifiers gone.
C1_Witness ==
    \E s, u \in Streams :
        /\ ~mode[s] /\ mode[u]
        /\ Finished(s) /\ Finished(u)
        /\ exit[s] = "break" /\ exit[u] = "break"
        /\ Truthy(rid[s]) /\ Truthy(rid[u]) /\ rid[s] # rid[u]
        /\ Registry = {}

\* C2 (cancellation effect), as claimed: once the identifier of a stream is
\* flagged, the run in which the stream pulls its next chunk (its next
\* registry check) emits no content frame and raises nothing, in either
\* projection.
C2_NoContentAfterCheck ==
    [][\A s \in Streams :
          (Flagged(s) /\ Pulls(s))
              => /\ DataFrames(out'[s]) = DataFrames(out[s])
                 /\ ~Raised(exit'[s])]_vars

\* C3 (metadata-tail correctness): a stream of the metadata-tail projection
\* never holds a `done` event without having pulled the terminal chunk, and
\* once it has ended by itself (source exhausted or cancellation break) it
\* holds a `done` event exactly if the terminal chunk was pulled.
C3_DoneIffTerminal ==
    \A s \in Streams :
        mode[s] =>
            /\ HasDone(out[s]) => TerminalPulled(pulled[s])
            /\ (Finished(s) /\ exit[s] \in {"exhausted", "break"})
                   => (HasDone(out[s]) <=> TerminalPulled(pulled[s]))

\* C3 witness: a metadata-tail stream broke on a cancellation before the
\* terminal chunk arrived and ended without a `done` event, and another one
\* ended with the terminal chunk pulled and the `done` event out.
C3_Witness ==
    \E s, u \in Streams :
        /\ mode[s] /\ Finished(s) /\ exit[s] = "break"
        /\ Len(pulled[s]) >= 1 /\ ~TerminalPulled(pulled[s]) /\ ~HasDone(out[s])
        /\ mode[u] /\ Finished(u) /\ TerminalPulled(pulled[u]) /\ HasDone(out[u])

RECURSIVE Concat(_)
\* The in-order concatenation of a sequence of strings.
Concat(q) == IF q = <<>> THEN "" ELSE Head(q) \o Concat(Tail(q))

\* The content carried by the emitted content frames, and by the chunks.
ContentOut(o) == Concat([i \in 1..Len(DataFrames(o)) |-> DataFrames(o)[i].data])
ContentIn(h) == Concat([i \in 1..Len(h) |-> Get(h[i], CONTENT, "")])

\* One data frame per chunk of h, in order.
FramesOf(h) == [i \in 1..Len(h) |-> str_to_sse(Get(h[i], CONTENT, ""))]

\* h without its last chunk.
Front(h) == SubSeq(h, 1, Len(h) - 1)

\* C4 (content fidelity), as claimed: a stream that ran to the end of its
\* source without stopping for a cancellation has emitted content frames
\* whose concatenation is the concatenation of the chunks' content, in
\* either projection.
C4_ContentFidelity ==
    \A s \in Streams :
        (Finished(s) /\ exit[s] = "exhausted")
            => ContentOut(out[s]) = ContentIn(pulled[s])

\* C5, as claimed: a metadata-tail stream that ran to the end of a source of
\* n non-terminal chunks and the terminal chunk has emitted n data frames,
\* one per non-terminal chunk in order, and then one `done` event carrying
\* the terminal chunk.
C5_MetadataTailOutput ==
    \A s \in Streams :
        (mode[s] /\ Finished(s) /\ exit[s] = "exhausted" /\ TerminalPulled(pulled[s]))
            => out[s] = Append(FramesOf(Front(pulled[s])),
                               event_to_sse("done", pulled[s][Len(pulled[s])]))

\* C6, as claimed: a content-only stream that ran to the end of a source of
\* n non-terminal chunks and the terminal chunk has emitted n data frames,
\* one per non-terminal chunk, and nothing for the terminal chunk.
C6_NoFrameForTerminal ==
    \A s \in Streams :
        (~mode[s] /\ Finished(s) /\ exit[s] = "exhausted" /\ TerminalPulled(pulled[s]))
            => out[s] = FramesOf(Front(pulled[s]))

\* C6, amended: a content-only stream that ran to the end of a source of n
\* non-terminal chunks and the terminal chunk has emitted n + 1 data frames,
\* one per chunk in source order, the last carrying the terminal chunk's
\* content (the empty string when the chunk has none), and no `done` event.
C6_FramePerChunk ==
    \A s \in Streams :
        (~mode[s] /\ Finished(s) /\ exit[s] = "exhausted" /\ TerminalPulled(pulled[s]))
            => /\ out[s] = FramesOf(pulled[s])
               /\ Len(out[s]) = Len(Front(pulled[s])) + 1
               /\ ~HasDone(out[s])

\* C6 witness: a content-only stream with an identifier ran to the end of a
\* source of MaxChunks non-terminal chunks and the terminal chunk.
C6_Witness ==
    \E s \in Streams :
        /\ ~mode[s] /\ Truthy(rid[s]) /\ Finished(s) /\ exit[s] = "exhausted"
        /\ TerminalPulled(pulled[s]) /\ Len(pulled[s]) = MaxChunks + 1

\* C7: while the identifier of an in-flight stream that has emitted k >= 1
\* frames is flagged, the stream emits nothing more (k frames in total), a
\* stream waiting for its next chunk ends in its next run, and the
\* identifier is absent from the registry when the stream has ended.  A
\* cancellation request puts the flag there, and the flag stays until a
\* stream owning the identifier ends.
C7_CancelAfterKFrames ==
    [][\A s \in Streams :
          /\ \A id \in CancelIds :
                (stop_generation(id) /\ rid[s] = id /\ Truthy(id)) => Flagged(s)'
          /\ (Flagged(s) /\ \A u \in Streams : Exits(u) => rid[u] # rid[s])
                => Flagged(s)'
          /\ (InFlight(s) /\ Flagged(s) /\ Len(out[s]) >= 1)
                => /\ out'[s] = out[s]
                   /\ (st[s] = "awaiting" /\ st'[s] # "awaiting") => Exits(s)
                   /\ Exits(s) => rid[s] \notin app_state'.stop_signal]_vars

\* C7 witness: a content-only stream that had emitted at least one frame
\* stopped at the check of a further chunk, which it did not emit, and its
\* identifier is gone.
C7_Witness ==
    \E s \in Streams :
        /\ ~mode[s] /\ Finished(s) /\ exit[s] = "break"
        /\ Len(out[s]) >= 1 /\ Len(pulled[s]) = Len(out[s]) + 1
        /\ rid[s] \notin Registry

\* C8 (idempotent cancel): a cancellation request always answers ok, also
\* for an unknown identifier or one already flagged (which it leaves
\* flagged, the registry unchanged); it changes the flag of no other
\* identifier; a stream stops for a cancellation only when its own
\* identifier is flagged, and a content-only stream whose identifier is not
\* flagged emits the chunk it pulls whatever else the registry holds.
C8_IdempotentCancel ==
    [][/\ \A id \in CancelIds :
             stop_generation(id)
                 => /\ resp' = "ok"
                    /\ (Truthy(id) /\ id \in Registry) => app_state' = app_state
                    /\ \A b \in ClientIds \ {id} :
                          (b \in app_state'.stop_signal) <=> (b \in Registry)
       /\ \A s \in Streams :
             /\ (exit[s] = "none" /\ exit'[s] = "break") => Flagged(s)
             /\ (~mode[s] /\ ~Flagged(s) /\ Pulls(s))
                   => out'[s] = Append(out[s],
                          str_to_sse(Get(pulled'[s][Len(pulled'[s])], CONTENT, "")))]_vars

\* C8 witness: one stream stopped for a cancellation of its identifier and
\* the identifier was requested again after it had ended; a content-only
\* stream with another identifier has run to the end of its source and
\* emitted every chunk.
C8_Witness ==
    \E s, u \in Streams :
        /\ Truthy(rid[s]) /\ Truthy(rid[u]) /\ rid[s] # rid[u]
        /\ Finished(u) /\ exit[u] = "break"
        /\ rid[u] \in Registry
        /\ ~mode[s] /\ Finished(s) /\ exit[s] = "exhausted"
        /\ Len(pulled[s]) = MaxChunks + 1 /\ out[s] = FramesOf(pulled[s])

\* C9, as claimed: a cancellation request for an identifier that names no
\* in-flight stream answers ok and leaves the registry unchanged.
C9_UnknownCancelIsNoOp ==
    [][\A id \in CancelIds :
          (stop_generation(id) /\ \A s \in Streams : ~(InFlight(s) /\ rid[s] = id))
              => (resp' = "ok" /\ app_state' = app_state)]_vars

\* C10, as claimed: once every stream has ended, the identifier of no stream
\* is left in the registry.
C10_NoLeakedEntry ==
    (\A s \in Streams : Finished(s))
        => \A s \in Streams : rid[s] \notin Registry

\* The generator of s runs in this step.
Moves(s) == st'[s] # st[s] \/ Pulls(s)

\* C11 (opt-in cancellation): a stream started without a request identifier
\* (None or "") never touches the registry -- no run of it changes the
\* application state, and it never fails on a registry that is not there --
\* and no content of the registry stops it: it never ends by a cancellation
\* break, the content-only loop emits the frame of every chunk it pulls, and
\* the metadata-tail loop goes on to the next chunk.
C11_NoIdIgnoresRegistry ==
    [][\A s \in Streams :
          (st[s] # "idle" /\ ~Truthy(rid[s]))
              => /\ Moves(s) => app_state' = app_state
                 /\ exit'[s] \notin {"break", "AttributeError"}
                 /\ (Pulls(s) /\ ~mode[s])
                       => out'[s] = Append(out[s],
                              str_to_sse(Get(chunk'[s][1], CONTENT, "")))
                 /\ (Pulls(s) /\ mode[s])
                       => st'[s] = "awaiting" /\ out'[s] = out[s]]_vars

\* C11 witness: a content-only stream without identifier has drained a
\* source of maximal length, one frame per chunk, while every client
\* identifier was flagged in the registry.
C11_Witness ==
    \E s \in Streams :
        /\ ~Truthy(rid[s]) /\ ~mode[s] /\ Finished(s)
        /\ exit[s] = "exhausted"
        /\ Len(pulled[s]) = MaxChunks + 1 /\ Len(out[s]) = MaxChunks + 1
        /\ HasRegistry /\ Registry = ClientIds

\* C12 (source failure mid-stream): when the chunk source raises while a
\* generator of either projection waits for its next chunk, after zero or
\* more chunks, the generator ends in that step with the failure of the
\* source, emits nothing in that step, has emitted no `done` event, and its
\* identifier is absent from the registry afterwards; an ended generator
\* never emits again.
C12_SourceFailure ==
    [][\A s \in Streams :
          /\ SourceRaises(s)
                => /\ Exits(s) /\ exit'[s] = "SourceError"
                   /\ out'[s] = out[s] /\ ~HasDone(out'[s])
                   /\ Truthy(rid[s]) => rid[s] \notin Registry'
          /\ Finished(s) => (out'[s] = out[s] /\ exit'[s] = exit[s])]_vars

\* C12 witness: a content-only stream that had emitted frames and a
\* metadata-tail stream that had pulled chunks, both flagged, both ended by
\* the failure of their source, both identifiers gone.
C12_Witness ==
    \E s, u \in Streams :
        /\ ~mode[s] /\ mode[u]
        /\ Finished(s) /\ Finished(u)
        /\ exit[s] = "SourceError" /\ exit[u] = "SourceError"
        /\ Len(out[s]) >= 1 /\ Len(pulled[u]) >= 1
        /\ Truthy(rid[s]) /\ Truthy(rid[u]) /\ rid[s] # rid[u]
        /\ Registry = {}

\* C13 (metadata tail reads only what it received), as claimed: a
\* metadata-tail generator whose source did not itself raise -- a source of
\* zero chunks included, and whatever the timing of cancellation requests --
\* ends without raising.
C13_MetadataTailNeverRaises ==
    \A s \in Streams :
        (mode[s] /\ Finished(s) /\ exit[s] # "SourceError")
            => ~Raised(exit[s])

\* C14 (cooperative stop): a generator that has seen its identifier in the
\* registry at a check never pulls another chunk; the check runs once for
\* every chunk pulled, on the registry as it is at the pull -- a stream with
\* an identifier stops at a pull exactly when its identifier is flagged
\* then -- and never without a pull; the check precedes the emission of the
\* chunk: the content-only loop emits in the run of a pull only when the
\* check found no flag.
C14_CooperativeStop ==
    [][\A s \in Streams :
          /\ exit[s] = "break" => ~Pulls(s)
          /\ (Pulls(s) /\ Truthy(rid[s]))
                => (exit'[s] = "break" <=> Flagged(s))
          /\ (exit[s] # "break" /\ exit'[s] = "break") => Pulls(s)
          /\ (Pulls(s) /\ ~mode[s] /\ out'[s] # out[s]) => ~Flagged(s)]_vars

\* C14 witness: a metadata-tail stream stopped at the check of its first
\* chunk, a non-terminal one, so its source had more chunks to give; it has
\* ended without pulling any of them.
C14_Witness ==
    \E s \in Streams :
        /\ mode[s] /\ Finished(s) /\ exit[s] = "break"
        /\ Len(pulled[s]) = 1 /\ ~TerminalPulled(pulled[s])
        /\ SourceChunks(pulled[s]) # {}

\* C15 (registry initialised at start), as claimed: the application state
\* holds the cancellation registry from process start, so no cancellation
\* request and no registry access of a stream with an identifier ever fails
\* on a registry that was never created.
C15_RegistryFromStart ==
    /\ resp # "AttributeError"
    /\ \A s \in Streams : exit[s] # "AttributeError"

\* No other stream in flight has the identifier of s.
SoleOwner(s) ==
    \A u \in Streams \ {s} : InFlight(u) => rid[u] # rid[s]

\* C16 (removal only at stream exit): an identifier leaves the registry only
\* in a step in which a generator started with it ends; so while a stream
\* that is the only one in flight with its identifier is still running, its
\* flag, once set, stays until the step in which that stream itself ends.
C16_RemovalOnlyAtExit ==
    [][/\ \A id \in ClientIds :
             (id \in Registry /\ id \notin Registry')
                 => \E s \in Streams : rid[s] = id /\ Exits(s)
       /\ \A s \in Streams :
             (InFlight(s) /\ SoleOwner(s) /\ Flagged(s) /\ ~Flagged(s)')
                 => Exits(s)]_vars

\* C16 witness: a stream that has emitted a frame is suspended at its yield
\* with its identifier flagged -- the flag waits for the next check -- while
\* a stream with another identifier has stopped for its own cancellation and
\* taken its identifier with it.
C16_Witness ==
    \E s, u \in Streams :
        /\ st[s] = "yielded" /\ Len(out[s]) >= 1 /\ ~mode[s]
        /\ Flagged(s) /\ SoleOwner(s)
        /\ Finished(u) /\ exit[u] = "break"
        /\ Truthy(rid[u]) /\ rid[u] # rid[s] /\ rid[u] \notin Registry

Sharing(s, u) ==
    /\ s # u /\ InFlight(s) /\ InFlight(u)
    /\ Truthy(rid[s]) /\ rid[s] = rid[u]

\* C18 (identifier reuse), as claimed: a stream for whose identifier a
\* cancellation request came while it and another stream with the same
\* identifier were in flight stops at its next registry check.
C18_ReuseStopsBoth ==
    [][\A s \in Streams :
          (armed[s] /\ Pulls(s)) => exit'[s] = "break"]_vars

\* C18, amended: of two streams in flight with one identifier, one that runs
\* its check while the identifier is flagged stops there; the step in which
\* either of them ends removes the identifier, so the other is no longer
\* flagged; and a check that runs when the identifier is not flagged does
\* not stop the stream, whatever request came before.
C18_ReuseFirstExitClears ==
    [][\A s, u \in Streams :
          Sharing(s, u)
              => /\ (Pulls(s) /\ Flagged(s)) => exit'[s] = "break"
                 /\ Exits(s) => ~Flagged(u)'
                 /\ (Pulls(u) /\ ~Flagged(u))
                       => (exit'[u] # "break" /\ st'[u] # "finished")]_vars

\* C18 witness: the request came while both streams were in flight; one of
\* them has stopped for it and ended, and the other, still in flight and
\* not having run a check since the request, is no longer flagged.
C18_Witness ==
    \E s, u \in Streams :
        /\ s # u /\ Truthy(rid[s]) /\ rid[s] = rid[u]
        /\ Finished(s) /\ exit[s] = "break"
        /\ InFlight(u) /\ armed[u] /\ ~Flagged(u)
        /\ SourceChunks(pulled[u]) # {}

\* C19 (pre-armed cancellation): when the identifier of a content-only
\* stream is already flagged as the stream pulls its first chunk -- the
\* request came before that pull, during the stream or before the stream
\* was even started -- the stream ends in that step by the cancellation
\* break, with one chunk pulled and no frame emitted, and its identifier is
\* absent from the registry afterwards.
C19_PreArmedCancel ==
    [][\A s \in Streams :
          (~mode[s] /\ pulled[s] = <<>> /\ Flagged(s) /\ Pulls(s))
              => /\ Exits(s) /\ exit'[s] = "break"
                 /\ Len(pulled'[s]) = 1 /\ out'[s] = <<>>
                 /\ rid[s] \notin Registry']_vars

\* C19 witness: a content-only stream ended by the cancellation break with
\* one chunk pulled, a non-terminal one, nothing emitted, and its
\* identifier gone.
C19_Witness ==
    \E s \in Streams :
        /\ ~mode[s] /\ Finished(s) /\ exit[s] = "break"
        /\ Len(pulled[s]) = 1 /\ ~TerminalPulled(pulled[s])
        /\ out[s] = <<>> /\ Truthy(rid[s]) /\ rid[s] \notin Registry

\* C20 (cleanup frame): the step in which a generator started with
\* identifier A ends leaves the registry equal to what it was minus A -- the
\* membership of every other identifier is unchanged -- and leaves it as it
\* was when the stream had no identifier; and no run of a generator adds
\* anything to the registry.
C20_CleanupFrame ==
    [][\A s \in Streams :
          /\ Exits(s)
                => Registry' = IF Truthy(rid[s])
                               THEN Registry \ {rid[s]} ELSE Registry
          /\ Moves(s) => Registry' \subseteq Registry]_vars

\* C20 witness: a stream whose identifier was flagged has been closed by its
\* consumer; its identifier is gone while the other client identifier,
\* flagged before, still is in the registry.
C20_Witness ==
    \E s \in Streams :
        /\ Finished(s) /\ exit[s] = "closed" /\ Truthy(rid[s])
        /\ Registry = ClientIds \ {rid[s]}
        /\ \E u \in Streams : InFlight(u) /\ Flagged(u)

====
